---- MODULE Spec2Model ----
(***************************************************************************)
(* Model of the slide-video pipeline of if-blog-auto: the timing           *)
(* calculation of generate_video_v3.py, the per-scene image and audio      *)
(* batches, the quality evaluator and the review loop of main.py.          *)
(*                                                                         *)
(* Times are integers in milliseconds (the code uses float seconds), so    *)
(* 0.5 s of padding is 500 and int(duration * fps) is (ms * fps) \div 1000.*)
(***************************************************************************)
EXTENDS Integers, Sequences, FiniteSets, TLC

VARIABLES
    audio_results,  \* TimingCalculator.calculate: its audio_results argument
    timings,        \* TimingCalculator.calculate: the dict it returns
    calc_pc,        \* "input" before calculate ran, "done" after it returned
    img_slides,     \* image batch: the slides (scenes) handed to it
    img_i,          \* image batch: slides handled so far
    result_slides,  \* image batch: the assets collected so far, in order
    img_files,      \* image files on disk, named by slide id
    img_pc,         \* image batch: "loop", "returned", "raised", "assert_failed"
    img_log,        \* image batch: external calls and local drawings, in the order made
    aud_impl,       \* audio batch: which generator runs it ("v3", "v2", "marp")
    aud_slides,     \* audio batch: the narrations handed to it
    aud_i,          \* audio batch: narrations handled so far
    aud_results,    \* audio batch: the per-slide audio info set so far, in order
    aud_log,        \* audio batch: external calls and sleeps, in the order made
    aud_pc,         \* audio batch: "loop", "returned", "raised"
    run_args,       \* main: the command-line switches of the run
    run_pc,         \* main: the step about to run, or "returned" / "raised"
    run_steps,      \* main: result["steps"], as <<step, status>> in insertion order
    review_attempts,\* main: review_attempts
    last_review,    \* main: quality_score and status of the latest review
    review_log,     \* main: the reviews review_article returned, in the order made
    run_status,     \* main: result["status"]
    run_saved,      \* main: the article file was written to output/posts
    eval_article,   \* evaluator: the article handed to evaluate_all
    eval_slides,    \* evaluator: slides_data, <<>> when None
    eval_video,     \* evaluator: video_data, <<>> when None
    eval_report,    \* evaluator: what evaluate_all returned, <<>> before the call
    eval_pc,        \* evaluator: "input" before the call, "done" after it, then "again"
    eval_removed,   \* evaluator: files named by the data that have since left the disk
    eval_report2,   \* evaluator: what a second call on the same data returned
    ren_impl,       \* video run: which generator runs it ("v3", "v2", "slide", "legacy")
    ren_tool,       \* video run: whether node and render.mjs can be found
    ren_pc,         \* video run: "deps", "stages", "invoke", "fallback", "check", then
                    \* "returned", "raised" or "cancelled"
    ren_trace,      \* video run: the stages entered so far, in order
    ren_runs,       \* video run: the renderer invocations made so far, in order
    ren_output,     \* video run: the declared output file, "absent", "empty" or "nonempty"
    ren_staged,     \* video run: hand-off files now on disk under remotion/
    ren_status,     \* video run: result["status"]
    ren_fatal,      \* video run: <<stage>> once that stage raised, <<>> before
    scr_target,     \* video script: num_slides
    scr_answer,     \* video script: the slides of the model's answer, <<>> if none parsed
    scr_script,     \* video script: the slides of the script generate returned
    scr_pc,         \* video script: "call" before generate ran, "returned" after
    sv_target_slides,  \* slide video: the target_slides argument
    sv_slide_duration, \* slide video: the slide_duration argument, in seconds
    sv_slides,      \* slide video: the slides step 1 generated
    sv_rendered,    \* slide video: the normalized slides handed to the renderer
    sv_pc           \* slide video: "start", "rendered"

timingVars == <<audio_results, timings, calc_pc>>
imageVars == <<img_slides, img_i, result_slides, img_files, img_pc, img_log>>
audioVars == <<aud_impl, aud_slides, aud_i, aud_results, aud_log, aud_pc>>
runVars == <<run_args, run_pc, run_steps, review_attempts, last_review, review_log, run_status,
             run_saved>>
evalVars == <<eval_article, eval_slides, eval_video, eval_report, eval_pc,
              eval_removed, eval_report2>>
renderVars == <<ren_impl, ren_tool, ren_pc, ren_trace, ren_runs, ren_output, ren_staged,
                ren_status, ren_fatal>>
scriptVars == <<scr_target, scr_answer, scr_script, scr_pc>>
slideVideoVars == <<sv_target_slides, sv_slide_duration, sv_slides, sv_rendered, sv_pc>>

vars == <<audio_results, timings, calc_pc,
          img_slides, img_i, result_slides, img_files, img_pc, img_log,
          aud_impl, aud_slides, aud_i, aud_results, aud_log, aud_pc,
          run_args, run_pc, run_steps, review_attempts, last_review, review_log, run_status,
          run_saved,
          eval_article, eval_slides, eval_video, eval_report, eval_pc,
          eval_removed, eval_report2,
          ren_impl, ren_tool, ren_pc, ren_trace, ren_runs, ren_output, ren_staged,
          ren_status, ren_fatal,
          scr_target, scr_answer, scr_script, scr_pc,
          sv_target_slides, sv_slide_duration, sv_slides, sv_rendered, sv_pc>>

\* what each component leaves alone
otherThanTiming == <<imageVars, audioVars, runVars,
        evalVars, renderVars, scriptVars, slideVideoVars>>
otherThanImages == <<timingVars, audioVars, runVars,
        evalVars, renderVars, scriptVars, slideVideoVars>>
otherThanAudio == <<timingVars, imageVars, runVars,
        evalVars, renderVars, scriptVars, slideVideoVars>>
otherThanRun == <<timingVars, imageVars, audioVars,
        evalVars, renderVars, scriptVars, slideVideoVars>>
otherThanEval == <<timingVars, imageVars, audioVars,
        runVars, renderVars, scriptVars, slideVideoVars>>
otherThanRender == <<timingVars, imageVars, audioVars,
        runVars, evalVars, scriptVars, slideVideoVars>>
otherThanScript == <<timingVars, imageVars, audioVars,
        runVars, evalVars, renderVars, slideVideoVars>>
otherThanSlideVideo == <<timingVars, imageVars, audioVars,
        runVars, evalVars, renderVars, scriptVars>>

-----------------------------------------------------------------------------
(* Bounds *)

\* longest list of scenes fed to one batch
MaxSlides == 3

-----------------------------------------------------------------------------
(* VideoConfig (generate_video_v3.py), durations in milliseconds *)

fps == 30
default_slide_duration == 5000
min_slide_duration == 3000
max_slide_duration == 30000
audio_padding == 500

\* _generate_subtitles(max_chars=30)
max_chars == 30

\* Python's round(): num/den rounded to the nearest integer, halves to even
PyRound(num, den) ==
    LET q == num \div den
        r == num % den
    IN  IF 2 * r < den THEN q
        ELSE IF 2 * r > den THEN q + 1
        ELSE IF q % 2 = 0 THEN q ELSE q + 1

Max(a, b) == IF a >= b THEN a ELSE b
Min(a, b) == IF a <= b THEN a ELSE b

-----------------------------------------------------------------------------
(* Narration text: a sequence of characters *)

\* the four separators of the pattern: ideographic full stop and comma, full-width
\* exclamation and question mark (named, as the module is ASCII)
Separators == {"KUTEN", "TOUTEN", "EXCL", "QUES"}
Whitespace == {" "}

\* text[:n]
Take(s, n) == SubSeq(s, 1, Min(n, Len(s)))

RECURSIVE LStrip(_)
LStrip(s) == IF s # <<>> /\ Head(s) \in Whitespace THEN LStrip(Tail(s)) ELSE s

RECURSIVE RStrip(_)
RStrip(s) ==
    IF s # <<>> /\ s[Len(s)] \in Whitespace
    THEN RStrip(SubSeq(s, 1, Len(s) - 1))
    ELSE s

\* str.strip()
Strip(s) == RStrip(LStrip(s))

\* re.split on the separator class: the pieces between separators, empty ones included
RECURSIVE SplitFrom(_, _, _)
SplitFrom(text, piece, i) ==
    IF i > Len(text) THEN <<piece>>
    ELSE IF text[i] \in Separators
         THEN <<piece>> \o SplitFrom(text, <<>>, i + 1)
         ELSE SplitFrom(text, Append(piece, text[i]), i + 1)

ReSplit(text) == SplitFrom(text, <<>>, 1)

\* [s.strip() for s in sentences if s.strip()]
RECURSIVE StripNonEmpty(_)
StripNonEmpty(pieces) ==
    IF pieces = <<>> THEN <<>>
    ELSE IF Strip(Head(pieces)) # <<>>
         THEN <<Strip(Head(pieces))>> \o StripNonEmpty(Tail(pieces))
         ELSE StripNonEmpty(Tail(pieces))

Sentences(text) == StripNonEmpty(ReSplit(text))

\* the "..." appended to a cut sentence, as characters
Ellipsis == <<".", ".", ".">>

DisplayText(sentence) ==
    IF Len(sentence) > max_chars THEN Take(sentence, max_chars) \o Ellipsis ELSE sentence

-----------------------------------------------------------------------------
(* TimingCalculator._generate_subtitles *)

\* a mutant of SegmentEnd: the last segment is not stretched to the scene's end
SegmentEndNoStretch(i, n, current, frames_per_segment, start_frame, total_frames) ==
    current + frames_per_segment

\* end frame of sentence i of n (1-based here, 0-based in the code)
SegmentEnd(i, n, current, frames_per_segment, start_frame, total_frames) ==
    IF i = n THEN start_frame + total_frames ELSE current + frames_per_segment

RECURSIVE Segments(_, _, _, _, _, _)
Segments(sentences, i, current, frames_per_segment, start_frame, total_frames) ==
    IF i > Len(sentences) THEN <<>>
    ELSE LET end == SegmentEnd(i, Len(sentences), current, frames_per_segment,
                               start_frame, total_frames)
         IN  <<[text |-> DisplayText(sentences[i]), startFrame |-> current, endFrame |-> end]>>
             \o Segments(sentences, i + 1, end, frames_per_segment, start_frame, total_frames)

\* a mutant of generate_subtitles: frames_per_segment is rounded up
generate_subtitlesCeil(text, start_frame, total_frames) ==
    IF text = <<>> \/ Strip(text) = <<>> THEN <<>>
    ELSE LET sentences == Sentences(text) IN
         IF sentences = <<>>
         THEN <<[text |-> Take(text, max_chars * 2),
                 startFrame |-> start_frame,
                 endFrame |-> start_frame + total_frames]>>
         ELSE Segments(sentences, 1, start_frame,
                       (total_frames + Len(sentences) - 1) \div Len(sentences),
                       start_frame, total_frames)

\* _generate_subtitles(text, start_frame, total_frames)
generate_subtitles(text, start_frame, total_frames) ==
    IF text = <<>> \/ Strip(text) = <<>> THEN <<>>
    ELSE LET sentences == Sentences(text) IN
         IF sentences = <<>>
         THEN <<[text |-> Take(text, max_chars * 2),
                 startFrame |-> start_frame,
                 endFrame |-> start_frame + total_frames]>>
         ELSE Segments(sentences, 1, start_frame, total_frames \div Len(sentences),
                       start_frame, total_frames)

-----------------------------------------------------------------------------
(* TimingCalculator.calculate *)

\* `if audio.get("duration")`: a duration of 0 is falsy and takes the default
RawDuration(audio) ==
    IF audio.duration # 0
    THEN audio.duration + audio_padding
    ELSE default_slide_duration

ClampDuration(duration) ==
    Max(min_slide_duration, Min(max_slide_duration, duration))

\* a mutant of DurationFrames: rounds to the nearest frame instead of truncating
DurationFramesRounded(duration) == (duration * fps + 500) \div 1000

\* int(duration * self.fps)
DurationFrames(duration) == (duration * fps) \div 1000

\* a mutant of AdvanceFrame: leaves a one-frame gap after every slide
AdvanceFrameGap(current_frame, duration_frames) == current_frame + duration_frames + 1

\* current_frame += duration_frames
AdvanceFrame(current_frame, duration_frames) == current_frame + duration_frames

SlideTiming(i, audio, current_frame) ==
    LET duration == ClampDuration(RawDuration(audio))
        duration_frames == DurationFrames(duration)
    IN  [index |-> i - 1,
         slide_id |-> audio.slide_id,
         startFrame |-> current_frame,
         endFrame |-> current_frame + duration_frames,
         duration |-> duration,
         subtitles |-> generate_subtitles(audio.narration, current_frame, duration_frames)]

\* the loop of calculate from slide i on: <<slides, current_frame>>
RECURSIVE CalcLoop(_, _, _)
CalcLoop(results, i, current_frame) ==
    IF i > Len(results) THEN <<<<>>, current_frame>>
    ELSE LET slide == SlideTiming(i, results[i], current_frame)
             rest == CalcLoop(results, i + 1,
                              AdvanceFrame(current_frame, slide.endFrame - slide.startFrame))
         IN  <<<<slide>> \o rest[1], rest[2]>>

calculate(results) ==
    LET out == CalcLoop(results, 1, 0)
    IN  [fps |-> fps, totalFrames |-> out[2], slides |-> out[1]]

-----------------------------------------------------------------------------
(* Inputs of the timing calculation *)

\* audio durations in ms: silent (0), very short, one that does not fall on a
\* frame boundary (3.06 s + 0.5 s = 106.8 frames), 4.5 s, and one over the cap
DurationsMs == {0, 100, 3060, 4500, 40000}

Narrations ==
    { <<>>,
      <<"KUTEN">>,
      <<"a">>,
      <<"a", "KUTEN", " ", "b", "TOUTEN", "c", "EXCL">> }

AudioInputs == DurationsMs \X Narrations

NoTimings == [fps |-> fps, totalFrames |-> 0, slides |-> <<>>]

\* the timing calculation is not part of the run
TimingIdle ==
    /\ audio_results = <<>>
    /\ timings = NoTimings
    /\ calc_pc = "idle"

\* the image batch is not part of the run
ImagesIdle ==
    /\ img_slides = <<>>
    /\ img_i = 0
    /\ result_slides = <<>>
    /\ img_files = {}
    /\ img_pc = "idle"
    /\ img_log = <<>>

AudioIdle ==
    /\ aud_impl = "none"
    /\ aud_slides = <<>>
    /\ aud_i = 0
    /\ aud_results = <<>>
    /\ aud_log = <<>>
    /\ aud_pc = "idle"

NoReview == [quality_score |-> 0, status |-> "none"]

RunIdle ==
    /\ run_args = [skip_images |-> FALSE, skip_video |-> FALSE, use_slide_video |-> FALSE,
                   publish |-> FALSE, dry_run |-> FALSE]
    /\ run_pc = "idle"
    /\ run_steps = <<>>
    /\ review_attempts = 0
    /\ last_review = NoReview
    /\ review_log = <<>>
    /\ run_status = "idle"
    /\ run_saved = FALSE

EvalIdle ==
    /\ eval_article = <<>>
    /\ eval_slides = <<>>
    /\ eval_video = <<>>
    /\ eval_report = <<>>
    /\ eval_pc = "idle"
    /\ eval_removed = {}
    /\ eval_report2 = <<>>

RenderIdle ==
    /\ ren_impl = "none"
    /\ ren_tool = "none"
    /\ ren_pc = "idle"
    /\ ren_trace = <<>>
    /\ ren_runs = <<>>
    /\ ren_output = "absent"
    /\ ren_staged = {}
    /\ ren_status = "idle"
    /\ ren_fatal = <<>>

ScriptIdle ==
    /\ scr_target = 0
    /\ scr_answer = <<>>
    /\ scr_script = <<>>
    /\ scr_pc = "idle"

SlideVideoIdle ==
    /\ sv_target_slides = 0
    /\ sv_slide_duration = 0
    /\ sv_slides = <<>>
    /\ sv_rendered = <<>>
    /\ sv_pc = "idle"

InitTiming ==
    /\ \E n \in 0..MaxSlides : \E f \in [1..n -> AudioInputs] :
          audio_results = [i \in 1..n |->
              [slide_id |-> i, duration |-> f[i][1], narration |-> f[i][2]]]
    /\ timings = NoTimings
    /\ calc_pc = "input"
    /\ ImagesIdle
    /\ AudioIdle
    /\ RunIdle
    /\ EvalIdle
    /\ RenderIdle
    /\ ScriptIdle
    /\ SlideVideoIdle

Calculate ==
    /\ calc_pc = "input"
    /\ timings' = calculate(audio_results)
    /\ calc_pc' = "done"
    /\ UNCHANGED audio_results
    /\ UNCHANGED otherThanTiming

NextTiming == Calculate

SpecTiming == InitTiming /\ [][NextTiming]_vars

-----------------------------------------------------------------------------
(* SlideImageGenerator.generate_all (generate_video_v2.py) *)

\* what the external image call does: an image part, a payload that does not
\* decode, a response without image data, or an exception
ImageResponses == {"image", "bad_image", "empty", "error"}

\* _generate_image_gemini: True only when an image was decoded and saved; an empty
\* prompt, a response without inline data and every exception give False
generate_image_gemini(has_prompt, response) ==
    has_prompt /\ response = "image"

\* a mutant of create_fallback_image: the background is fetched from a service
create_fallback_imageRemote(log) == log \o <<"call", "draw">>

\* _create_fallback_image: a gradient and the heading are drawn with PIL and saved;
\* no client is used
create_fallback_image(log) == Append(log, "draw")

\* a mutant of CollectSlide: a slide whose image fell back is left out of the result
CollectSlideDropFallback(results, slide, method) ==
    IF method = "fallback" THEN results
    ELSE Append(results, [slide_id |-> slide.slide_id,
                          image_path |-> slide.slide_id,
                          generation_method |-> method])

\* result_slides.append({**slide, "image_path": ..., "generation_method": method})
CollectSlide(results, slide, method) ==
    Append(results, [slide_id |-> slide.slide_id,
                     image_path |-> slide.slide_id,
                     generation_method |-> method])

\* slides as the script generator hands them over: an id and an image prompt,
\* which may be empty
SlideInputs == [slide_id : 1..MaxSlides, has_prompt : BOOLEAN]

InitImages ==
    /\ \E n \in 0..MaxSlides : img_slides \in [1..n -> SlideInputs]
    /\ img_i = 0
    /\ result_slides = <<>>
    /\ img_files = {}
    /\ img_pc = "loop"
    /\ img_log = <<>>
    /\ TimingIdle
    /\ AudioIdle
    /\ RunIdle
    /\ EvalIdle
    /\ RenderIdle
    /\ ScriptIdle
    /\ SlideVideoIdle

\* one pass of the loop over slides: the external call, the fallback image when
\* it did not succeed, the base64 read of the image file, the append
GenerateSlideImage ==
    /\ img_pc = "loop"
    /\ img_i < Len(img_slides)
    /\ \E response \in ImageResponses :
          LET slide == img_slides[img_i + 1]
              success == generate_image_gemini(slide.has_prompt, response)
              method == IF success THEN "gemini" ELSE "fallback"
          IN  \* img.save on success, _create_fallback_image otherwise: either
              \* way image_path is written before _to_base64 reads it
              /\ img_files' = img_files \cup {slide.slide_id}
              /\ img_log' = LET called == IF slide.has_prompt THEN Append(img_log, "call")
                                          ELSE img_log
                            IN  IF success THEN called ELSE create_fallback_image(called)
              /\ result_slides' = CollectSlide(result_slides, slide, method)
    /\ img_i' = img_i + 1
    /\ UNCHANGED <<img_slides, img_pc>>
    /\ UNCHANGED otherThanImages

\* after the loop: assert len(result_slides) == len(slides), then return
GenerateAllReturn ==
    /\ img_pc = "loop"
    /\ img_i = Len(img_slides)
    /\ img_pc' = IF Len(result_slides) = Len(img_slides) THEN "returned" ELSE "assert_failed"
    /\ UNCHANGED <<img_slides, img_i, result_slides, img_files, img_log>>
    /\ UNCHANGED otherThanImages

NextImages == GenerateSlideImage \/ GenerateAllReturn

SpecImages == InitImages /\ [][NextImages]_vars

-----------------------------------------------------------------------------
(* video_generator/main.py: GeminiVideoClient.generate_image and the image loop *)
(* and final assembly of VideoGeneratorWorkflow.generate_from_text              *)

\* generate_image: what it leaves on disk for a response. An image is saved; an
\* exception (the call's, or the decoder's on a bad payload) is caught and a
\* placeholder is drawn; a response without image data only returns False.
vg_generate_image(response) ==
    CASE response = "image" -> "gemini"
      [] response \in {"bad_image", "error"} -> "placeholder"
      [] OTHER -> "none"

InitSceneImages ==
    /\ \E n \in 1..MaxSlides : img_slides \in [1..n -> SlideInputs]
    /\ img_i = 0
    /\ result_slides = <<>>
    /\ img_files = {}
    /\ img_pc = "loop"
    /\ img_log = <<>>
    /\ TimingIdle
    /\ AudioIdle
    /\ RunIdle
    /\ EvalIdle
    /\ RenderIdle
    /\ ScriptIdle
    /\ SlideVideoIdle

\* Step 3, one scene: generate_image is awaited, its result is dropped, and
\* scene.image_path is set to the path whether or not a file was written
VGGenerateImage ==
    /\ img_pc = "loop"
    /\ img_i < Len(img_slides)
    /\ \E response \in ImageResponses :
          LET scene == img_slides[img_i + 1]
              method == vg_generate_image(response)
          IN  /\ img_files' = IF method = "none" THEN img_files
                              ELSE img_files \cup {scene.slide_id}
              /\ img_log' = IF method = "placeholder" THEN img_log \o <<"call", "draw">>
                            ELSE Append(img_log, "call")
              /\ result_slides' = CollectSlide(result_slides, scene, method)
    /\ img_i' = img_i + 1
    /\ UNCHANGED <<img_slides, img_pc>>
    /\ UNCHANGED otherThanImages

\* Step 4: create_final_video opens every scene.image_path (create_ken_burns_clip);
\* a missing file raises, and generate_from_text lets the exception through
VGCreateFinalVideo ==
    /\ img_pc = "loop"
    /\ img_i = Len(img_slides)
    /\ img_pc' = IF \A i \in 1..Len(result_slides) : result_slides[i].image_path \in img_files
                 THEN "returned" ELSE "raised"
    /\ UNCHANGED <<img_slides, img_i, result_slides, img_files, img_log>>
    /\ UNCHANGED otherThanImages

NextSceneImages == VGGenerateImage \/ VGCreateFinalVideo

SpecSceneImages == InitSceneImages /\ [][NextSceneImages]_vars

-----------------------------------------------------------------------------
(* Batch speech synthesis: TTSGenerator.generate_all (generate_video_v3.py),    *)
(* AudioSynthesizerV2.synthesize_all (generate_video_v2.py) and                 *)
(* AudioSynthesizer.synthesize_all (marp_video_generator/main.py)               *)

tts_placeholder_duration == 5000    \* v3: "duration": 5.0 of a fresh result
v2_silent_duration == 3000          \* v2: audio_duration of a slide without narration
v2_fallback_duration == 5000        \* v2: audio_duration after a failed synthesis

\* what the external TTS call can do: answer with PCM data, answer without any,
\* or raise
SynthOutcomes == {"audio", "no_data", "error"}
\* lengths of the PCM answers, in ms
SynthDurations == {1200, 4500}
\* a narration is "", whitespace only, or proper text
NarrationKinds == {"empty", "blank", "text"}

\* _synthesize / synthesize returns a duration only when PCM data came back;
\* otherwise it raises (the call's exception, or ValueError on no data)
SynthesizeRaises(outcome) == outcome # "audio"

AudioResult(slide_id, duration, has_audio, synth) ==
    [slide_id |-> slide_id, duration |-> duration, has_audio |-> has_audio, synth |-> synth]

InitAudio ==
    /\ aud_impl \in {"v3", "v2", "marp"}
    /\ \E n \in 0..MaxSlides : aud_slides \in [1..n -> NarrationKinds]
    /\ aud_i = 0
    /\ aud_results = <<>>
    /\ aud_log = <<>>
    /\ aud_pc = "loop"
    /\ TimingIdle
    /\ ImagesIdle
    /\ RunIdle
    /\ EvalIdle
    /\ RenderIdle
    /\ ScriptIdle
    /\ SlideVideoIdle

\* a mutant of V3GenerateAudio: a narration whose synthesis failed is left out of
\* the results
V3GenerateAudioDropsFailed ==
    /\ aud_impl = "v3"
    /\ aud_pc = "loop"
    /\ aud_i < Len(aud_slides)
    /\ \E outcome \in SynthOutcomes, d \in SynthDurations :
          LET slide_id == aud_i + 1
              text == aud_slides[slide_id]
          IN  IF text = "text"
              THEN /\ aud_results' = IF SynthesizeRaises(outcome) THEN aud_results
                                     ELSE Append(aud_results,
                                                 AudioResult(slide_id, d, TRUE, "ok"))
                   /\ aud_log' = aud_log \o <<"call", "sleep">>
              ELSE /\ aud_results' = Append(aud_results,
                          AudioResult(slide_id, tts_placeholder_duration, FALSE, "skipped"))
                   /\ aud_log' = Append(aud_log, "sleep")
    /\ aud_i' = aud_i + 1
    /\ UNCHANGED <<aud_impl, aud_slides, aud_pc>>
    /\ UNCHANGED otherThanAudio

\* v3, one iteration: the result starts as the 5.0 s placeholder; text that is not
\* blank is synthesized inside try/except; the result is appended and the loop
\* sleeps, whatever happened
V3GenerateAudio ==
    /\ aud_impl = "v3"
    /\ aud_pc = "loop"
    /\ aud_i < Len(aud_slides)
    /\ \E outcome \in SynthOutcomes, d \in SynthDurations :
          LET slide_id == aud_i + 1
              text == aud_slides[slide_id]
          IN  IF text = "text"
              THEN /\ aud_results' = Append(aud_results,
                          IF SynthesizeRaises(outcome)
                          THEN AudioResult(slide_id, tts_placeholder_duration, FALSE, "failed")
                          ELSE AudioResult(slide_id, d, TRUE, "ok"))
                   /\ aud_log' = aud_log \o <<"call", "sleep">>
              ELSE /\ aud_results' = Append(aud_results,
                          AudioResult(slide_id, tts_placeholder_duration, FALSE, "skipped"))
                   /\ aud_log' = Append(aud_log, "sleep")
    /\ aud_i' = aud_i + 1
    /\ UNCHANGED <<aud_impl, aud_slides, aud_pc>>
    /\ UNCHANGED otherThanAudio

\* v2, one iteration: an empty narration gets 3.0 s and the loop continues at once;
\* anything else is synthesized inside try/except (5.0 s on failure), then a sleep
V2SynthesizeSlide ==
    /\ aud_impl = "v2"
    /\ aud_pc = "loop"
    /\ aud_i < Len(aud_slides)
    /\ \E outcome \in SynthOutcomes, d \in SynthDurations :
          LET slide_id == aud_i + 1
              narration == aud_slides[slide_id]
          IN  IF narration = "empty"
              THEN /\ aud_results' = Append(aud_results,
                          AudioResult(slide_id, v2_silent_duration, FALSE, "skipped"))
                   /\ aud_log' = aud_log
              ELSE /\ aud_results' = Append(aud_results,
                          IF SynthesizeRaises(outcome)
                          THEN AudioResult(slide_id, v2_fallback_duration, FALSE, "failed")
                          ELSE AudioResult(slide_id, d, TRUE, "ok"))
                   /\ aud_log' = aud_log \o <<"call", "sleep">>
    /\ aud_i' = aud_i + 1
    /\ UNCHANGED <<aud_impl, aud_slides, aud_pc>>
    /\ UNCHANGED otherThanAudio

\* marp, one iteration: every script is synthesized; synthesize logs and re-raises,
\* synthesize_all has no handler, and generate logs and re-raises: the workflow ends
MarpSynthesizeSlide ==
    /\ aud_impl = "marp"
    /\ aud_pc = "loop"
    /\ aud_i < Len(aud_slides)
    /\ \E outcome \in SynthOutcomes, d \in SynthDurations :
          LET slide_id == aud_i + 1
          IN  IF SynthesizeRaises(outcome)
              THEN /\ aud_pc' = "raised"
                   /\ UNCHANGED <<aud_results, aud_i>>
              ELSE /\ aud_results' = Append(aud_results, AudioResult(slide_id, d, TRUE, "ok"))
                   /\ aud_i' = aud_i + 1
                   /\ aud_pc' = aud_pc
    /\ aud_log' = Append(aud_log, "call")
    /\ UNCHANGED <<aud_impl, aud_slides>>
    /\ UNCHANGED otherThanAudio

\* the loop is over: the batch returns its results
AudioReturn ==
    /\ aud_pc = "loop"
    /\ aud_i = Len(aud_slides)
    /\ aud_pc' = "returned"
    /\ UNCHANGED <<aud_impl, aud_slides, aud_i, aud_results, aud_log>>
    /\ UNCHANGED otherThanAudio

NextAudio == V3GenerateAudio \/ V2SynthesizeSlide \/ MarpSynthesizeSlide \/ AudioReturn

SpecAudio == InitAudio /\ [][NextAudio]_vars

\* either batch of a generator: the image batch or the audio batch
InitBatches == InitImages \/ InitAudio

NextBatches == NextImages \/ NextAudio

SpecBatches == InitBatches /\ [][NextBatches]_vars

-----------------------------------------------------------------------------
(* src/scripts/main.py: main(), one run of the blog pipeline *)

MIN_QUALITY_SCORE == 80
MAX_REVIEW_ATTEMPTS == 3

\* quality_score and status a review can come back with (review.py defaults to
\* 75 and "approved" when the reply carries none)
ReviewScores == {0, 75, 79, 80, 95}
ReviewStatuses == {"approved", "needs_revision", "rejected"}
\* VideoGeneratorV2.generate answers "success" or "error"
VideoStatuses == {"success", "error"}
PublishStatuses == {"success", "error"}

\* --use-slide-video and --publish are store_true switches with default=True:
\* they are true on every run
RunArgs == [skip_images : BOOLEAN, skip_video : BOOLEAN, use_slide_video : {TRUE},
            publish : {TRUE}, dry_run : BOOLEAN]

\* result["steps"][step] = {"status": status, ...}
RecordStep(steps, step, status) == Append(steps, <<step, status>>)

\* the break condition of the review loop
ThresholdMet(review) ==
    review.quality_score >= MIN_QUALITY_SCORE /\ review.status = "approved"

\* a mutant of ReviewLoopEnds: the score alone ends the loop
ReviewLoopEndsOnScore(review, attempts) ==
    review.quality_score >= MIN_QUALITY_SCORE \/ attempts >= MAX_REVIEW_ATTEMPTS

\* the for loop over range(MAX_REVIEW_ATTEMPTS) is left on break or when the range
\* is used up
ReviewLoopEnds(review, attempts) ==
    ThresholdMet(review) \/ attempts >= MAX_REVIEW_ATTEMPTS

InitRun ==
    /\ run_args \in RunArgs
    /\ run_pc = "research"
    /\ run_steps = <<>>
    /\ review_attempts = 0
    /\ last_review = NoReview
    /\ review_log = <<>>
    /\ run_status = "in_progress"
    /\ run_saved = FALSE
    /\ TimingIdle
    /\ ImagesIdle
    /\ AudioIdle
    /\ EvalIdle
    /\ RenderIdle
    /\ ScriptIdle
    /\ SlideVideoIdle

\* except Exception: the result is marked and the exception is raised again
RunRaise ==
    /\ run_status' = "error"
    /\ run_pc' = "raised"

\* Step 1
RunResearch ==
    /\ run_pc = "research"
    /\ \/ /\ run_steps' = RecordStep(run_steps, "research", "completed")
          /\ run_pc' = "content"
          /\ UNCHANGED run_status
       \/ RunRaise /\ UNCHANGED run_steps
    /\ UNCHANGED <<run_args, review_attempts, last_review, review_log, run_saved>>
    /\ UNCHANGED otherThanRun

\* Step 2
RunContent ==
    /\ run_pc = "content"
    /\ \/ /\ run_steps' = RecordStep(run_steps, "content", "completed")
          /\ run_pc' = "images"
          /\ UNCHANGED run_status
       \/ RunRaise /\ UNCHANGED run_steps
    /\ UNCHANGED <<run_args, review_attempts, last_review, review_log, run_saved>>
    /\ UNCHANGED otherThanRun

\* Step 3
RunImages ==
    /\ run_pc = "images"
    /\ \/ /\ run_args.skip_images
          /\ run_steps' = RecordStep(run_steps, "images", "skipped")
          /\ run_pc' = "videos"
          /\ UNCHANGED run_status
       \/ /\ ~run_args.skip_images
          /\ \/ \E status \in {"success", "error"} :
                   /\ run_steps' = RecordStep(run_steps, "images", status)
                   /\ run_pc' = "videos"
                   /\ UNCHANGED run_status
             \/ RunRaise /\ UNCHANGED run_steps
    /\ UNCHANGED <<run_args, review_attempts, last_review, review_log, run_saved>>
    /\ UNCHANGED otherThanRun

\* Step 4: the slide-based generator records "videos" and "slides", the traditional
\* one "videos"; a video that failed does not stop the run
RunVideos ==
    /\ run_pc = "videos"
    /\ \/ /\ run_args.skip_video
          /\ run_steps' = RecordStep(run_steps, "videos", "skipped")
          /\ run_pc' = "seo"
          /\ UNCHANGED run_status
       \/ /\ ~run_args.skip_video
          /\ \/ \E status \in VideoStatuses :
                   /\ run_steps' =
                         IF run_args.use_slide_video
                         THEN RecordStep(RecordStep(run_steps, "videos", status), "slides",
                                         IF status = "success" THEN "completed" ELSE "error")
                         ELSE RecordStep(run_steps, "videos", status)
                   /\ run_pc' = "seo"
                   /\ UNCHANGED run_status
             \/ RunRaise /\ UNCHANGED run_steps
    /\ UNCHANGED <<run_args, review_attempts, last_review, review_log, run_saved>>
    /\ UNCHANGED otherThanRun

\* Step 5
RunSeo ==
    /\ run_pc = "seo"
    /\ \/ /\ run_steps' = RecordStep(run_steps, "seo", "completed")
          /\ run_pc' = "review"
          /\ UNCHANGED run_status
       \/ RunRaise /\ UNCHANGED run_steps
    /\ UNCHANGED <<run_args, review_attempts, last_review, review_log, run_saved>>
    /\ UNCHANGED otherThanRun

\* Step 6, one iteration of the review loop: the counter goes up, the article is
\* reviewed, and the loop is left when the threshold is met or the range is used
\* up; either way the review step is then recorded as completed
RunReview ==
    /\ run_pc = "review"
    /\ review_attempts < MAX_REVIEW_ATTEMPTS
    /\ review_attempts' = review_attempts + 1
    /\ \/ \E quality_score \in ReviewScores, status \in ReviewStatuses :
             LET review == [quality_score |-> quality_score, status |-> status]
             IN  /\ last_review' = review
                 /\ review_log' = Append(review_log, review)
                 /\ IF ReviewLoopEnds(review, review_attempts')
                    THEN /\ run_steps' = RecordStep(run_steps, "review", "completed")
                         /\ run_pc' = "save"
                    ELSE /\ run_pc' = "review"
                         /\ UNCHANGED run_steps
                 /\ UNCHANGED run_status
       \/ RunRaise /\ UNCHANGED <<run_steps, last_review, review_log>>
    /\ UNCHANGED <<run_args, run_saved>>
    /\ UNCHANGED otherThanRun

\* local save: the file is written unless this is a dry run
RunSave ==
    /\ run_pc = "save"
    /\ \/ /\ run_saved' = ~run_args.dry_run
          /\ run_pc' = "publish"
          /\ UNCHANGED run_status
       \/ RunRaise /\ UNCHANGED run_saved
    /\ UNCHANGED <<run_args, run_steps, review_attempts, last_review, review_log>>
    /\ UNCHANGED otherThanRun

\* Step 7 and the end of the try block: result["status"] = "completed"
RunPublish ==
    /\ run_pc = "publish"
    /\ \/ /\ run_args.publish /\ ~run_args.dry_run
          /\ \/ \E status \in PublishStatuses :
                   /\ run_steps' = RecordStep(run_steps, "publish", status)
                   /\ run_status' = "completed"
                   /\ run_pc' = "returned"
             \/ RunRaise /\ UNCHANGED run_steps
       \/ /\ ~(run_args.publish /\ ~run_args.dry_run)
          /\ run_steps' = RecordStep(run_steps, "publish", "skipped")
          /\ run_status' = "completed"
          /\ run_pc' = "returned"
    /\ UNCHANGED <<run_args, review_attempts, last_review, review_log, run_saved>>
    /\ UNCHANGED otherThanRun

NextRun ==
    \/ RunResearch
    \/ RunContent
    \/ RunImages
    \/ RunVideos
    \/ RunSeo
    \/ RunReview
    \/ RunSave
    \/ RunPublish

SpecRun == InitRun /\ [][NextRun]_vars

-----------------------------------------------------------------------------
(* src/scripts/quality_evaluator.py: QualityEvaluator                          *)
(* Scores are kept in ten-thousandths of a point, percentages in tenths of a   *)
(* percent, so that every partial score is an integer.                         *)

\* PASS_THRESHOLD = 0.97, in thousandths (as a percentage: in tenths of a percent)
PASS_THRESHOLD == 970

WEIGHTS ==
    [article_length |-> 10, article_structure |-> 10, article_sources |-> 8,
     article_seo |-> 6, article_readability |-> 8, article_no_emoji |-> 4,
     article_engagement |-> 4,
     slide_count |-> 5, slide_text_length |-> 5, slide_images |-> 5,
     slide_structure |-> 5, slide_design |-> 5, slide_marp_compat |-> 5,
     video_resolution |-> 5, video_audio |-> 5, video_timing |-> 5,
     video_transitions |-> 5, video_file_size |-> 5, video_no_errors |-> 5]

\* one criterion's contribution: score += ..., issues.append, recommendations.append
Crit(score, issues, recommendations) ==
    [score |-> score, issues |-> issues, recommendations |-> recommendations]

RECURSIVE SumCrit(_)
SumCrit(crits) ==
    IF crits = <<>> THEN Crit(0, <<>>, <<>>)
    ELSE LET rest == SumCrit(Tail(crits))
         IN  Crit(Head(crits).score + rest.score,
                  Head(crits).issues \o rest.issues,
                  Head(crits).recommendations \o rest.recommendations)

\* (score / max_score) >= PASS_THRESHOLD
ScorePassed(score, max_score) == score >= PASS_THRESHOLD * max_score * 10

QualityResult(category, score, max_score, passed, issues, recommendations) ==
    [category |-> category, score |-> score, max_score |-> max_score, passed |-> passed,
     issues |-> issues, recommendations |-> recommendations]

\* a mutant of ArticleLength: full weight from 10,000 characters on
ArticleLengthLenient(word_count) ==
    IF word_count >= 10000 THEN Crit(WEIGHTS.article_length * 10000, <<>>, <<>>)
    ELSE IF word_count >= 5000
    THEN Crit(WEIGHTS.article_length * 2000, <<"length_far_short">>, <<"expand_to_20000">>)
    ELSE Crit(0, <<"length_extremely_short">>, <<"expand_to_20000">>)
\* 1. length: full weight from 20,000 characters, then 0.7, 0.4, 0.2 and nothing
ArticleLength(word_count) ==
    IF word_count >= 20000 THEN Crit(WEIGHTS.article_length * 10000, <<>>, <<>>)
    ELSE IF word_count >= 15000
    THEN Crit(WEIGHTS.article_length * 7000, <<"length_below_target">>, <<>>)
    ELSE IF word_count >= 10000
    THEN Crit(WEIGHTS.article_length * 4000, <<"length_short">>, <<"expand_to_15000">>)
    ELSE IF word_count >= 5000
    THEN Crit(WEIGHTS.article_length * 2000, <<"length_far_short">>, <<"expand_to_20000">>)
    ELSE Crit(0, <<"length_extremely_short">>, <<"expand_to_20000">>)

\* 2. structure
ArticleStructure(has_intro, section_count, has_conclusion) ==
    IF has_intro /\ section_count >= 12 /\ has_conclusion
    THEN Crit(WEIGHTS.article_structure * 10000, <<>>, <<>>)
    ELSE IF has_intro /\ section_count >= 8 /\ has_conclusion
    THEN Crit(WEIGHTS.article_structure * 7000, <<"sections_below_target">>, <<>>)
    ELSE IF section_count >= 5
    THEN Crit(WEIGHTS.article_structure * 5000, <<"structure_incomplete">>, <<>>)
    ELSE Crit(0, <<"structure_insufficient">>, <<"use_15_sections">>)

\* 3. sources
ArticleSources(source_count) ==
    IF source_count >= 10 THEN Crit(WEIGHTS.article_sources * 10000, <<>>, <<>>)
    ELSE IF source_count >= 7
    THEN Crit(WEIGHTS.article_sources * 7000, <<"sources_somewhat_few">>, <<>>)
    ELSE IF source_count >= 5
    THEN Crit(WEIGHTS.article_sources * 5000, <<"sources_few">>, <<>>)
    ELSE Crit(0, <<"sources_missing">>, <<"add_10_sources">>)

\* 4. SEO score
ArticleSeo(seo_score) ==
    IF seo_score >= 85 THEN Crit(WEIGHTS.article_seo * 10000, <<>>, <<>>)
    ELSE IF seo_score >= 70
    THEN Crit(WEIGHTS.article_seo * 7000, <<"seo_below_target">>, <<>>)
    ELSE Crit(WEIGHTS.article_seo * 3000, <<"seo_low">>, <<"improve_keywords">>)

\* 5. readability: 0.4 for short paragraphs, 0.3 for lists, 0.3 for headings
ArticleReadability(short_paragraphs, has_lists, has_headings) ==
    LET readability_score == (IF short_paragraphs THEN 4000 ELSE 0)
                             + (IF has_lists THEN 3000 ELSE 0)
                             + (IF has_headings THEN 3000 ELSE 0)
    IN  IF readability_score < 7000
        THEN Crit(WEIGHTS.article_readability * readability_score,
                  <<"readability">>, <<"use_headings_and_lists">>)
        ELSE Crit(WEIGHTS.article_readability * readability_score, <<>>, <<>>)

\* 6. no emoji
ArticleNoEmoji(has_emoji) ==
    IF ~has_emoji THEN Crit(WEIGHTS.article_no_emoji * 10000, <<>>, <<>>)
    ELSE Crit(0, <<"emoji_used">>, <<"remove_emoji">>)

\* 7. engagement: 0.25 for each of the four checks that holds
ArticleEngagement(engagement_checks) ==
    LET engagement_score == 2500 * Cardinality(engagement_checks)
    IN  IF engagement_score < 7500
        THEN Crit(WEIGHTS.article_engagement * engagement_score,
                  <<"engagement">>, <<"add_engagement">>)
        ELSE Crit(WEIGHTS.article_engagement * engagement_score, <<>>, <<>>)

evaluate_article(article) ==
    LET max_score == 50
        word_count == article.word_count
        critical_length_failure == word_count < 15000
        total == SumCrit(<<ArticleLength(word_count),
                           ArticleStructure(article.has_intro, article.section_count,
                                            article.has_conclusion),
                           ArticleSources(article.source_count),
                           ArticleSeo(article.seo_score),
                           ArticleReadability(article.short_paragraphs, article.has_lists,
                                              article.section_count >= 1),
                           ArticleNoEmoji(article.has_emoji),
                           ArticleEngagement(article.engagement_checks)>>)
        score_passed == ScorePassed(total.score, max_score)
        passed == score_passed /\ ~critical_length_failure
        forced == critical_length_failure /\ score_passed
    IN  QualityResult("article", total.score, max_score, passed,
                      IF forced THEN <<"forced_fail_length">> \o total.issues
                      ELSE total.issues,
                      IF forced THEN <<"expand_to_15000_required">> \o total.recommendations
                      ELSE total.recommendations)

\* evaluate_slides: slides_data carries the slides (type and length of heading plus
\* points), the size in bytes of each slide image (-1 when the file cannot be
\* read), what the markdown file is, and whether the PDF exists

\* 1. number of slides
SlideCount(slide_count) ==
    IF 10 <= slide_count /\ slide_count <= 15
    THEN Crit(WEIGHTS.slide_count * 10000, <<>>, <<>>)
    ELSE IF 8 <= slide_count /\ slide_count <= 17
    THEN Crit(WEIGHTS.slide_count * 6000, <<"slide_count_outside_range">>, <<>>)
    ELSE Crit(0, <<"slide_count_wrong">>, <<"use_10_to_15_slides">>)

RECURSIVE TextIssues(_)
TextIssues(slides) ==
    IF slides = <<>> THEN <<>>
    ELSE (IF Head(slides).text_len <= 100 THEN <<>> ELSE <<"slide_text_too_long">>)
         \o TextIssues(Tail(slides))

\* 2. text per slide: the weight times the share of slides within 100 characters
\* (the division is exact for the decks used here)
SlideTextLength(slides) ==
    LET slide_count == Len(slides)
        text_ok_count == Cardinality({i \in 1..slide_count : slides[i].text_len <= 100})
        denominator == Max(slide_count, 1)
    IN  Crit((WEIGHTS.slide_text_length * 10000 * text_ok_count) \div denominator,
             TextIssues(slides),
             IF 10 * text_ok_count < 8 * denominator THEN <<"shorten_slide_text">> ELSE <<>>)

\* 3. an image for every slide
SlideImages(image_count, slide_count) ==
    IF image_count >= slide_count THEN Crit(WEIGHTS.slide_images * 10000, <<>>, <<>>)
    ELSE IF 10 * image_count >= 8 * slide_count
    THEN Crit(WEIGHTS.slide_images * 7000, <<"some_slides_without_image">>, <<>>)
    ELSE Crit(0, <<"images_missing">>, <<"add_images">>)

\* 4. title, content, ending
SlideStructure(slides) ==
    LET has_title == \E i \in 1..Len(slides) : slides[i].type = "title"
        has_ending == \E i \in 1..Len(slides) : slides[i].type = "ending"
        content_slides == {i \in 1..Len(slides) : slides[i].type = "content"}
    IN  IF has_title /\ has_ending /\ Cardinality(content_slides) >= 5
        THEN Crit(WEIGHTS.slide_structure * 10000, <<>>, <<>>)
        ELSE IF has_title \/ has_ending
        THEN Crit(WEIGHTS.slide_structure * 5000, <<"slide_structure_incomplete">>, <<>>)
        ELSE Crit(0, <<"slide_structure_wrong">>, <<"use_title_content_ending">>)

RECURSIVE DesignIssues(_)
DesignIssues(slide_images) ==
    IF slide_images = <<>> THEN <<>>
    ELSE (IF 0 <= Head(slide_images) /\ Head(slide_images) < 10 * 1024
          THEN <<"image_too_small">> ELSE <<>>)
         \o DesignIssues(Tail(slide_images))

\* 5. design: 0.1 off for every image below 10 KB and for every unreadable one
SlideDesign(slide_images) ==
    LET off == Cardinality({i \in 1..Len(slide_images) : slide_images[i] < 10 * 1024})
        design_score == 10000 - 1000 * off
    IN  Crit(WEIGHTS.slide_design * Max(0, design_score), DesignIssues(slide_images), <<>>)

\* 6. Marp compatibility
SlideMarpCompat(markdown, pdf_exists) ==
    IF markdown = "frontmatter" THEN Crit(WEIGHTS.slide_marp_compat * 10000, <<>>, <<>>)
    ELSE IF markdown = "plain" THEN Crit(0, <<"no_marp_frontmatter">>, <<>>)
    ELSE IF pdf_exists THEN Crit(WEIGHTS.slide_marp_compat * 10000, <<>>, <<>>)
    ELSE Crit(0, <<"no_markdown_or_pdf">>, <<"generate_marp_markdown">>)

evaluate_slides(slides_data) ==
    LET max_score == 30
        slides == slides_data.slides
        total == SumCrit(<<SlideCount(Len(slides)),
                           SlideTextLength(slides),
                           SlideImages(Len(slides_data.slide_images), Len(slides)),
                           SlideStructure(slides),
                           SlideDesign(slides_data.slide_images),
                           SlideMarpCompat(slides_data.markdown, slides_data.pdf_exists)>>)
    IN  QualityResult("slides", total.score, max_score, ScorePassed(total.score, max_score),
                      total.issues, total.recommendations)

\* evaluate_video

\* 1. resolution; the second test is a substring test for "1920" or "1080"
VideoResolution(resolution) ==
    IF resolution = "1920x1080" THEN Crit(WEIGHTS.video_resolution * 10000, <<>>, <<>>)
    ELSE IF resolution \in {"1920x1200", "1080x1920"}
    THEN Crit(WEIGHTS.video_resolution * 7000, <<"resolution_not_standard">>, <<>>)
    ELSE Crit(0, <<"resolution_wrong">>, <<"render_1920x1080">>)

\* 2. audio
VideoAudio(has_audio, audio_size, script_len) ==
    IF has_audio
    THEN IF audio_size > 50000 /\ script_len > 100
         THEN Crit(WEIGHTS.video_audio * 10000, <<>>, <<>>)
         ELSE IF audio_size > 0
         THEN Crit(WEIGHTS.video_audio * 6000, <<"audio_could_improve">>, <<>>)
         ELSE Crit(0, <<"audio_invalid">>, <<>>)
    ELSE Crit(0, <<"no_audio">>, <<"add_tts_audio">>)

\* 3. timing
VideoTiming(duration) ==
    IF 25 <= duration /\ duration <= 120 THEN Crit(WEIGHTS.video_timing * 10000, <<>>, <<>>)
    ELSE Crit(WEIGHTS.video_timing * 5000, <<"video_length_wrong">>, <<>>)

\* 4. transitions, guessed from the file size
VideoTransitions(size_bytes) ==
    IF size_bytes > 5 * 1024 * 1024 THEN Crit(WEIGHTS.video_transitions * 10000, <<>>, <<>>)
    ELSE IF size_bytes > 2 * 1024 * 1024
    THEN Crit(WEIGHTS.video_transitions * 7000, <<"video_quality_maybe_low">>, <<>>)
    ELSE Crit(0, <<"video_file_too_small">>, <<"render_high_quality">>)

\* 5. file size
VideoFileSize(size_bytes) ==
    IF 2 * 1024 * 1024 <= size_bytes /\ size_bytes <= 100 * 1024 * 1024
    THEN Crit(WEIGHTS.video_file_size * 10000, <<>>, <<>>)
    ELSE IF size_bytes > 0
    THEN Crit(WEIGHTS.video_file_size * 5000,
              IF size_bytes < 2 * 1024 * 1024 THEN <<"file_too_small">>
              ELSE <<"file_too_large">>, <<>>)
    ELSE Crit(0, <<"video_file_absent">>, <<>>)

\* 6. no errors
VideoNoErrors(status, path_exists) ==
    IF status = "success" /\ path_exists
    THEN Crit(WEIGHTS.video_no_errors * 10000, <<>>, <<>>)
    ELSE IF status = "success"
    THEN Crit(WEIGHTS.video_no_errors * 5000, <<"video_file_not_found">>, <<>>)
    ELSE Crit(0, <<"video_generation_error">>, <<"fix_and_regenerate">>)

evaluate_video(video_data) ==
    LET max_score == 30
        total == SumCrit(<<VideoResolution(video_data.resolution),
                           VideoAudio(video_data.has_audio, video_data.audio_size_bytes,
                                      video_data.script_len),
                           VideoTiming(video_data.duration),
                           VideoTransitions(video_data.size_bytes),
                           VideoFileSize(video_data.size_bytes),
                           VideoNoErrors(video_data.status, video_data.path_exists)>>)
    IN  QualityResult("video", total.score, max_score, ScorePassed(total.score, max_score),
                      total.issues, total.recommendations)

\* evaluate_all

\* round(score / max_score * 100, 1), in tenths of a percent. The quotient is a
\* binary float: when the exact value lies halfway between two tenths the float
\* lies a hair to one side or the other, and either tenth can come out (tie_up).
RoundPercentage(score, max_score, tie_up) ==
    LET den == 10 * max_score
    IN  IF 2 * (score % den) = den
        THEN (score \div den) + (IF tie_up THEN 1 ELSE 0)
        ELSE PyRound(score, den)

\* results[category] = {...}
CategoryEntry(result, tie_up) ==
    [category |-> result.category, score |-> result.score, max_score |-> result.max_score,
     percentage |-> RoundPercentage(result.score, result.max_score, tie_up),
     passed |-> result.passed,
     issues |-> result.issues, recommendations |-> result.recommendations]

\* f"[{category}] {issue}"
Tagged(category, texts) == [i \in 1..Len(texts) |-> <<category, texts[i]>>]

RECURSIVE AllIssues(_)
AllIssues(categories) ==
    IF categories = <<>> THEN <<>>
    ELSE Tagged(Head(categories).category, Head(categories).issues)
         \o AllIssues(Tail(categories))

RECURSIVE AllRecommendations(_)
AllRecommendations(categories) ==
    IF categories = <<>> THEN <<>>
    ELSE Tagged(Head(categories).category, Head(categories).recommendations)
         \o AllRecommendations(Tail(categories))

RECURSIVE TotalOf(_, _)
TotalOf(categories, field) ==
    IF categories = <<>> THEN 0
    ELSE Head(categories)[field] + TotalOf(Tail(categories), field)

\* _generate_summary
generate_summary(percentage, passed) ==
    IF passed THEN [passed |-> TRUE, percentage |-> percentage, gap |-> 0]
    ELSE [passed |-> FALSE, percentage |-> percentage, gap |-> PASS_THRESHOLD - percentage]

\* slides_data and video_data are <<>> for None (or an empty dict), <<d>> otherwise
evaluate_all(article, slides_data, video_data, tie_up) ==
    LET categories ==
            <<CategoryEntry(evaluate_article(article), tie_up)>>
            \o (IF slides_data # <<>>
                THEN <<CategoryEntry(evaluate_slides(slides_data[1]), tie_up)>> ELSE <<>>)
            \o (IF video_data # <<>>
                THEN <<CategoryEntry(evaluate_video(video_data[1]), tie_up)>> ELSE <<>>)
        total_score == TotalOf(categories, "score")
        total_max == TotalOf(categories, "max_score")
        overall_percentage == IF total_max > 0
                              THEN RoundPercentage(total_score, total_max, tie_up) ELSE 0
        overall_passed == overall_percentage >= PASS_THRESHOLD
    IN  [overall |-> [score |-> total_score, max_score |-> total_max,
                      percentage |-> overall_percentage, passed |-> overall_passed,
                      threshold |-> PASS_THRESHOLD],
         categories |-> categories,
         all_issues |-> AllIssues(categories),
         all_recommendations |-> AllRecommendations(categories),
         summary |-> generate_summary(overall_percentage, overall_passed)]

\* the articles, slide data and video data the evaluator is run on
AllChecks == {"question", "story", "surprise", "action"}

ArticleInputs ==
    [word_count : {4999, 9999, 14999, 15000, 20000},
     has_intro : BOOLEAN, section_count : {0, 5, 8, 12}, has_conclusion : {TRUE},
     source_count : {4, 7, 10}, seo_score : {69, 70, 85},
     short_paragraphs : BOOLEAN, has_lists : BOOLEAN, has_emoji : BOOLEAN,
     engagement_checks : {{}, AllChecks \ {"action"}, AllChecks}]

Deck(n, ending, long) ==
    [i \in 1..n |-> [type |-> IF i = 1 THEN "title"
                              ELSE IF i = n /\ ending THEN "ending" ELSE "content",
                     text_len |-> IF i \in long THEN 101 ELSE 100]]

SlidesInputs ==
    { [slides |-> Deck(10, TRUE, {}), slide_images |-> [i \in 1..10 |-> 20480],
       markdown |-> "frontmatter", pdf_exists |-> TRUE],
      [slides |-> Deck(10, TRUE, {3}), slide_images |-> [i \in 1..10 |-> 20480],
       markdown |-> "missing", pdf_exists |-> TRUE],
      [slides |-> Deck(16, TRUE, {3}), slide_images |-> [i \in 1..16 |-> 20480],
       markdown |-> "frontmatter", pdf_exists |-> FALSE],
      [slides |-> Deck(8, FALSE, {2, 5}),
       slide_images |-> [i \in 1..7 |-> IF i = 1 THEN 10239 ELSE IF i = 2 THEN -1 ELSE 10240],
       markdown |-> "plain", pdf_exists |-> FALSE],
      [slides |-> <<>>, slide_images |-> <<>>, markdown |-> "missing", pdf_exists |-> FALSE] }

VideoInputs ==
    { [status |-> "success", path_exists |-> TRUE, resolution |-> "1920x1080",
       has_audio |-> TRUE, audio_size_bytes |-> 50001, script_len |-> 101,
       duration |-> 30, size_bytes |-> 5242881],
      [status |-> "success", path_exists |-> FALSE, resolution |-> "1920x1200",
       has_audio |-> TRUE, audio_size_bytes |-> 50000, script_len |-> 101,
       duration |-> 121, size_bytes |-> 2097153],
      [status |-> "error", path_exists |-> FALSE, resolution |-> "",
       has_audio |-> FALSE, audio_size_bytes |-> 0, script_len |-> 0,
       duration |-> 0, size_bytes |-> 0] }

Optional(S) == {<<>>} \cup {<<x>> : x \in S}

InitEval ==
    /\ eval_article \in ArticleInputs
    /\ eval_slides = <<>>
    /\ eval_video = <<>>
    /\ eval_report = <<>>
    /\ eval_pc = "input"
    /\ eval_removed = {}
    /\ eval_report2 = <<>>
    /\ TimingIdle
    /\ ImagesIdle
    /\ AudioIdle
    /\ RunIdle
    /\ RenderIdle
    /\ ScriptIdle
    /\ SlideVideoIdle

\* one call of evaluate_all on the article, with or without slides and video
EvaluateAll ==
    /\ eval_pc = "input"
    /\ \E slides_data \in Optional(SlidesInputs), video_data \in Optional(VideoInputs),
          tie_up \in BOOLEAN :
          /\ eval_slides' = slides_data
          /\ eval_video' = video_data
          /\ eval_report' = <<evaluate_all(eval_article, slides_data, video_data, tie_up)>>
    /\ eval_pc' = "done"
    /\ UNCHANGED <<eval_article, eval_removed, eval_report2>>
    /\ UNCHANGED otherThanEval

NextEval == EvaluateAll

SpecEval == InitEval /\ [][NextEval]_vars

\* Evaluating the same data twice. slides_data and video_data name files
\* (slide images, the markdown file, the PDF, the video); evaluate_slides and
\* evaluate_video look them up on disk at every call, and a file can leave the
\* disk between two calls.
FileGroups == {"slide_images", "markdown", "pdf", "video"}

\* what evaluate_slides finds for the same slides_data (<<>> when None) once files
\* are gone: stat raises for every image, the markdown and the PDF do not exist
SeenSlides(slides_data, removed) ==
    IF slides_data = <<>> THEN <<>>
    ELSE <<[slides_data[1] EXCEPT
        !.slide_images = IF "slide_images" \in removed THEN [i \in DOMAIN @ |-> -1] ELSE @,
        !.markdown = IF "markdown" \in removed THEN "missing" ELSE @,
        !.pdf_exists = IF "pdf" \in removed THEN FALSE ELSE @]>>

\* what evaluate_video finds: Path(video_path).exists() is false
SeenVideo(video_data, removed) ==
    IF video_data = <<>> THEN <<>>
    ELSE <<[video_data[1] EXCEPT !.path_exists = IF "video" \in removed THEN FALSE ELSE @]>>

\* a representative part of ArticleInputs
ArticleInputsTwice ==
    {a \in ArticleInputs : /\ a.source_count = 10 /\ a.seo_score = 85
                           /\ a.short_paragraphs /\ a.has_lists /\ ~a.has_emoji
                           /\ a.has_intro /\ a.engagement_checks # {}}

InitEvalTwice ==
    /\ eval_article \in ArticleInputsTwice
    /\ eval_slides = <<>>
    /\ eval_video = <<>>
    /\ eval_report = <<>>
    /\ eval_pc = "input"
    /\ eval_removed = {}
    /\ eval_report2 = <<>>
    /\ TimingIdle
    /\ ImagesIdle
    /\ AudioIdle
    /\ RunIdle
    /\ RenderIdle
    /\ ScriptIdle
    /\ SlideVideoIdle

\* between the two calls a group of files is removed from the disk
FilesRemoved ==
    /\ eval_pc = "done"
    /\ \E group \in FileGroups \ eval_removed : eval_removed' = eval_removed \cup {group}
    /\ UNCHANGED <<eval_article, eval_slides, eval_video, eval_report, eval_pc, eval_report2>>
    /\ UNCHANGED otherThanEval

\* the second call of evaluate_all, with the same three arguments. The float
\* arithmetic is deterministic: where the first call resolved a rounding tie one
\* way, the same computation resolves it the same way again.
EvaluateAgain ==
    /\ eval_pc = "done"
    /\ \E tie_up \in BOOLEAN :
          /\ evaluate_all(eval_article, eval_slides, eval_video, tie_up) = eval_report[1]
          /\ eval_report2' = <<evaluate_all(eval_article,
                                            SeenSlides(eval_slides, eval_removed),
                                            SeenVideo(eval_video, eval_removed),
                                            tie_up)>>
    /\ eval_pc' = "again"
    /\ UNCHANGED <<eval_article, eval_slides, eval_video, eval_report, eval_removed>>
    /\ UNCHANGED otherThanEval

NextEvalTwice == EvaluateAll \/ FilesRemoved \/ EvaluateAgain

SpecEvalTwice == InitEvalTwice /\ [][NextEvalTwice]_vars

-----------------------------------------------------------------------------
(* One run of a video generator: the stages before the render, then the Remotion
   render (generate_video_v3.py VideoGeneratorV3.generate and RemotionRenderer,
   generate_video_v2.py VideoGeneratorV2.generate and VideoAssemblerV2,
   generate_slide_video.py generate_slide_video, generate_video.py generate_video) *)

\* subprocess.run(..., timeout=600), in seconds
render_timeout == 600

RenderImpls == {"v3", "v2", "slide", "legacy"}

\* the stages a generator goes through before it renders, in order
Stages(impl) ==
    CASE impl = "v3" -> <<"slides", "images", "narration", "tts", "timing">>
      [] impl = "v2" -> <<"script", "images", "audio">>
      [] impl = "slide" -> <<"slides", "audio", "files">>
      [] impl = "legacy" -> <<"narration", "files">>

\* _generate_narration and _prepare_public_files of generate_video.py catch every
\* exception themselves; the stages of the other generators run inside the try
StageCanRaise(impl) == impl # "legacy"

\* generate_slide_video and generate_video check node before anything else
ChecksDependencies(impl) == impl \in {"slide", "legacy"}

\* only the two subprocess.run calls pass timeout=600; the two
\* asyncio.create_subprocess_exec calls wait with communicate() and no limit
HasTimeout(impl) == impl \in {"v3", "v2"}

\* the files the stage before the render places under remotion/public
PublicFiles(impl) == IF impl \in {"slide", "legacy"} THEN {"audio", "images"} ELSE {}

\* what the finally clause of the generator leaves of the staged files
AfterCleanup(impl, staged) == IF impl \in {"slide", "legacy"} THEN {} ELSE staged

\* cmd[2] of the first invocation
Composition(impl) ==
    CASE impl = "v3" -> "SlideVideoV3"
      [] impl = "v2" -> "SlideVideo"
      [] impl = "slide" -> "SlideVideo"
      [] impl = "legacy" -> "BlogVideo"

OutputStates == {"absent", "empty", "nonempty"}

\* what one run of node render.mjs can do: its exit code, how long it takes
\* (seconds) and the state it leaves the declared output file in
RenderOutcomes == [exit : {"zero", "nonzero"}, seconds : {60, 900}, output : OutputStates]

\* subprocess.run raises TimeoutExpired once the child has run for timeout seconds
TimedOut(impl, o) == HasTimeout(impl) /\ o.seconds > render_timeout

RenderRun(impl, composition, o) ==
    [composition |-> composition,
     exit |-> IF TimedOut(impl, o) THEN "killed" ELSE o.exit,
     seconds |-> IF TimedOut(impl, o) THEN render_timeout ELSE o.seconds]

\* a mutant of StageRaise: the handler logs the exception and the run goes on
StageRaiseAbsorbed(stage) ==
    [pc |-> "stages", status |-> "in_progress", fatal |-> <<stage>>]

\* except Exception / except CalledProcessError of the generator: the exception of a
\* stage ends the run with status "error"
StageRaise(stage) ==
    [pc |-> "returned", status |-> "error", fatal |-> <<stage>>]

InitRender ==
    /\ ren_impl \in RenderImpls
    /\ ren_tool \in {"available", "unavailable"}
    /\ ren_pc = IF ChecksDependencies(ren_impl) THEN "deps" ELSE "stages"
    /\ ren_trace = <<>>
    /\ ren_runs = <<>>
    /\ ren_output = "absent"
    /\ ren_staged = {}
    /\ ren_status = "in_progress"
    /\ ren_fatal = <<>>
    /\ TimingIdle
    /\ ImagesIdle
    /\ AudioIdle
    /\ RunIdle
    /\ EvalIdle
    /\ ScriptIdle
    /\ SlideVideoIdle

\* the dependency check: generate_slide_video returns an error result,
\* generate_video raises VideoGenerationError to its caller
GenerateDeps ==
    /\ ren_pc = "deps"
    /\ IF ren_tool = "available"
       THEN /\ ren_pc' = "stages"
            /\ UNCHANGED <<ren_status, ren_fatal>>
       ELSE /\ ren_pc' = IF ren_impl = "slide" THEN "returned" ELSE "raised"
            /\ ren_status' = IF ren_impl = "slide" THEN "error" ELSE "raised"
            /\ ren_fatal' = <<"deps">>
    /\ UNCHANGED <<ren_impl, ren_tool, ren_trace, ren_runs, ren_output, ren_staged>>
    /\ UNCHANGED otherThanRender

\* one stage before the render: it completes, or it raises into the handler
GenerateStage ==
    /\ ren_pc = "stages"
    /\ Len(ren_trace) < Len(Stages(ren_impl))
    /\ LET stage == Stages(ren_impl)[Len(ren_trace) + 1]
       IN  /\ ren_trace' = Append(ren_trace, stage)
           /\ \/ /\ ren_staged' = IF stage = "files" THEN PublicFiles(ren_impl)
                                  ELSE ren_staged
                 /\ UNCHANGED <<ren_pc, ren_status, ren_fatal>>
              \/ /\ StageCanRaise(ren_impl)
                 /\ ren_pc' = StageRaise(stage).pc
                 /\ ren_status' = StageRaise(stage).status
                 /\ ren_fatal' = StageRaise(stage).fatal
                 /\ ren_staged' = AfterCleanup(ren_impl, ren_staged)
    /\ UNCHANGED <<ren_impl, ren_tool, ren_runs, ren_output>>
    /\ UNCHANGED otherThanRender

\* the props JSON is written; RemotionRenderer and VideoAssemblerV2 then look for
\* render.mjs and raise FileNotFoundError when it is missing
RenderStage ==
    /\ ren_pc = "stages"
    /\ Len(ren_trace) = Len(Stages(ren_impl))
    /\ ren_trace' = Append(ren_trace, "render")
    /\ IF ren_tool = "unavailable"
       THEN /\ ren_pc' = StageRaise("render").pc
            /\ ren_status' = StageRaise("render").status
            /\ ren_fatal' = StageRaise("render").fatal
            /\ ren_staged' = AfterCleanup(ren_impl, ren_staged \cup {"props"})
       ELSE /\ ren_pc' = "invoke"
            /\ ren_staged' = ren_staged \cup {"props"}
            /\ UNCHANGED <<ren_status, ren_fatal>>
    /\ UNCHANGED <<ren_impl, ren_tool, ren_runs, ren_output>>
    /\ UNCHANGED otherThanRender

\* the renderer is invoked and waited for
RenderInvoke ==
    /\ ren_pc = "invoke"
    /\ \E o \in RenderOutcomes :
          LET run == RenderRun(ren_impl, Composition(ren_impl), o)
              raises == \/ run.exit = "killed"
                        \/ ren_impl = "v2" /\ run.exit = "nonzero"
          IN  /\ ren_runs' = Append(ren_runs, run)
              /\ ren_output' = o.output
              /\ IF raises
                 THEN /\ ren_pc' = StageRaise("render").pc
                      /\ ren_status' = StageRaise("render").status
                      /\ ren_fatal' = StageRaise("render").fatal
                      /\ UNCHANGED ren_staged
                 ELSE /\ ren_pc' = IF ren_impl = "v3" /\ run.exit = "nonzero"
                                   THEN "fallback" ELSE "check"
                      /\ ren_staged' = IF ren_impl = "slide" THEN ren_staged \ {"props"}
                                       ELSE ren_staged
                      /\ UNCHANGED <<ren_status, ren_fatal>>
    /\ UNCHANGED <<ren_impl, ren_tool, ren_trace>>
    /\ UNCHANGED otherThanRender

\* RemotionRenderer._execute_render after a non-zero exit: the renderer is invoked
\* again with the composition SlideVideo, and its exit code is not looked at
RenderFallback ==
    /\ ren_pc = "fallback"
    /\ \E o \in RenderOutcomes :
          LET run == RenderRun(ren_impl, "SlideVideo", o)
          IN  /\ ren_runs' = Append(ren_runs, run)
              /\ ren_output' = o.output
              /\ IF run.exit = "killed"
                 THEN /\ ren_pc' = StageRaise("render").pc
                      /\ ren_status' = StageRaise("render").status
                      /\ ren_fatal' = StageRaise("render").fatal
                 ELSE /\ ren_pc' = "check"
                      /\ UNCHANGED <<ren_status, ren_fatal>>
    /\ UNCHANGED <<ren_impl, ren_tool, ren_trace, ren_staged>>
    /\ UNCHANGED otherThanRender

\* what the generator concludes once the renderer has exited
RenderSucceeded(impl, runs, output) ==
    CASE impl \in {"v3", "v2"} -> output # "absent"
      [] impl = "slide" -> runs[Len(runs)].exit = "zero" /\ output # "absent"
      [] impl = "legacy" -> runs[Len(runs)].exit = "zero"

RenderCheck ==
    /\ ren_pc = "check"
    /\ IF RenderSucceeded(ren_impl, ren_runs, ren_output)
       THEN /\ ren_pc' = "returned"
            /\ ren_status' = "success"
            /\ UNCHANGED ren_fatal
       ELSE IF ren_impl = "slide"
       THEN /\ ren_pc' = "returned"
            /\ ren_status' = "error"
            /\ UNCHANGED ren_fatal
       ELSE /\ ren_pc' = StageRaise("render").pc
            /\ ren_status' = StageRaise("render").status
            /\ ren_fatal' = StageRaise("render").fatal
    /\ ren_staged' = AfterCleanup(ren_impl, ren_staged)
    /\ UNCHANGED <<ren_impl, ren_tool, ren_trace, ren_runs, ren_output>>
    /\ UNCHANGED otherThanRender

\* the run is cancelled while it waits (CancelledError at an await, or
\* KeyboardInterrupt): neither is an Exception, so no handler catches it, and
\* only the finally clauses run
RenderCancel ==
    /\ ren_pc \in {"stages", "invoke", "fallback", "check"}
    /\ ren_pc' = "cancelled"
    /\ ren_status' = "cancelled"
    /\ ren_staged' = AfterCleanup(ren_impl, ren_staged)
    /\ UNCHANGED <<ren_impl, ren_tool, ren_trace, ren_runs, ren_output, ren_fatal>>
    /\ UNCHANGED otherThanRender

NextRender ==
    \/ GenerateDeps
    \/ GenerateStage
    \/ RenderStage
    \/ RenderInvoke
    \/ RenderFallback
    \/ RenderCheck
    \/ RenderCancel

SpecRender == InitRender /\ [][NextRender]_vars

-----------------------------------------------------------------------------
(* VideoScriptGenerator.generate (generate_video_v2.py): the script of a video *)

ScriptTypes == {"title", "content", "ending"}

\* a slide of a script, as far as its id and type go
ScriptSlide(slide_id, type) == [slide_id |-> slide_id, type |-> type]

\* the slides the model may answer with: any ids, any types
AnswerSlides == [slide_id : 1..MaxSlides, type : ScriptTypes]

RECURSIVE PadSlides(_, _)
\* while len(slides) < target: append a slide numbered len(slides) + 1
PadSlides(slides, target) ==
    IF Len(slides) >= target THEN slides
    ELSE LET idx == Len(slides) + 1
         IN  PadSlides(Append(slides,
                              ScriptSlide(idx, IF idx < target THEN "content" ELSE "ending")),
                       target)

\* _adjust_slide_count: pad or cut to target, then the last slide becomes "ending"
adjust_slide_count(slides, target) ==
    LET sized == IF Len(slides) < target THEN PadSlides(slides, target)
                 ELSE IF Len(slides) > target THEN SubSeq(slides, 1, target)
                 ELSE slides
    IN  IF sized # <<>> THEN [sized EXCEPT ![Len(sized)].type = "ending"] ELSE sized

\* _create_fallback_script: slides 1..num_slides, the first "title", the last
\* "ending" (tested after the first), the others "content"
create_fallback_script(num_slides) ==
    [i \in 1..num_slides |->
        ScriptSlide(i, IF i = 1 THEN "title"
                       ELSE IF i = num_slides THEN "ending" ELSE "content")]

InitScript ==
    /\ scr_target \in 1..MaxSlides
    /\ \/ scr_answer = <<>>
       \/ \E n \in 0..MaxSlides : \E slides \in [1..n -> AnswerSlides] :
             scr_answer = <<slides>>
    /\ scr_script = <<>>
    /\ scr_pc = "call"
    /\ TimingIdle
    /\ ImagesIdle
    /\ AudioIdle
    /\ RunIdle
    /\ EvalIdle
    /\ RenderIdle
    /\ SlideVideoIdle

\* generate: the answer is parsed; with a slide count other than num_slides it is
\* adjusted, otherwise it is returned as it is; any exception gives the fallback
\* script. Nothing is raised to the caller.
GenerateScript ==
    /\ scr_pc = "call"
    /\ scr_script' = IF scr_answer = <<>> THEN create_fallback_script(scr_target)
                     ELSE IF Len(scr_answer[1]) # scr_target
                     THEN adjust_slide_count(scr_answer[1], scr_target)
                     ELSE scr_answer[1]
    /\ scr_pc' = "returned"
    /\ UNCHANGED <<scr_target, scr_answer>>
    /\ UNCHANGED otherThanScript

NextScript == GenerateScript

SpecScript == InitScript /\ [][NextScript]_vars

-----------------------------------------------------------------------------
(* SlideVideoGenerator.generate_slide_video (generate_slide_video.py): how many *)
(* slides are rendered, and in which form                                       *)

\* MAX_VIDEO_DURATION = 30, in seconds
MAX_VIDEO_DURATION == 30

\* slide_duration arguments, in seconds: the default, two that divide the limit
\* into few slides, and one beyond the limit
SlideDurations == {5, 10, 15, 31}

\* target_slides arguments
TargetSlides == {1, 6}

\* a generated slide, as far as its heading (numbered) and type go
GeneratedSlides == [heading : 1..MaxSlides, type : ScriptTypes]

\* a mutant of LimitSlides: one slide more than max_slides is kept
LimitSlidesLoose(slides, slide_duration) ==
    LET max_slides == MAX_VIDEO_DURATION \div slide_duration + 1
    IN  IF Len(slides) > max_slides THEN SubSeq(slides, 1, max_slides) ELSE slides

\* max_slides = MAX_VIDEO_DURATION // slide_duration; slides = slides[:max_slides]
LimitSlides(slides, slide_duration) ==
    LET max_slides == MAX_VIDEO_DURATION \div slide_duration
    IN  IF Len(slides) > max_slides THEN SubSeq(slides, 1, max_slides) ELSE slides

\* a mutant of normalize_slides_for_remotion: a slide in the middle keeps its type
normalize_slides_keep_type(slides) ==
    [i \in 1..Len(slides) |->
        [heading |-> slides[i].heading,
         type |-> IF i = 1 THEN "title"
                  ELSE IF i = Len(slides) THEN "ending"
                  ELSE slides[i].type]]

\* _normalize_slides_for_remotion: the first slide becomes "title"; else the last
\* becomes "ending"; every other slide becomes "content"
normalize_slides_for_remotion(slides) ==
    [i \in 1..Len(slides) |->
        [heading |-> slides[i].heading,
         type |-> IF i = 1 THEN "title"
                  ELSE IF i = Len(slides) THEN "ending"
                  ELSE "content"]]

InitSlideVideo ==
    /\ sv_target_slides \in TargetSlides
    /\ sv_slide_duration \in SlideDurations
    /\ \E n \in 0..MaxSlides : sv_slides \in [1..n -> GeneratedSlides]
    /\ sv_rendered = <<>>
    /\ sv_pc = "start"
    /\ TimingIdle
    /\ ImagesIdle
    /\ AudioIdle
    /\ RunIdle
    /\ EvalIdle
    /\ RenderIdle
    /\ ScriptIdle

\* step 1 reports an error: the run returns before anything is rendered
SlideVideoStepOneFails ==
    /\ sv_pc = "start"
    /\ sv_pc' = "error"
    /\ UNCHANGED <<sv_target_slides, sv_slide_duration, sv_slides, sv_rendered>>
    /\ UNCHANGED otherThanSlideVideo

\* steps 1 to 4: the generated slides are cut to max_slides, and step 4 hands
\* their normalized form to the renderer
SlideVideoRender ==
    /\ sv_pc = "start"
    /\ sv_rendered' = normalize_slides_for_remotion(LimitSlides(sv_slides, sv_slide_duration))
    /\ sv_pc' = "rendered"
    /\ UNCHANGED <<sv_target_slides, sv_slide_duration, sv_slides>>
    /\ UNCHANGED otherThanSlideVideo

NextSlideVideo == SlideVideoStepOneFails \/ SlideVideoRender

SpecSlideVideo == InitSlideVideo /\ [][NextSlideVideo]_vars

-----------------------------------------------------------------------------
(* Properties of the timing calculation, checked under SpecTiming *)

\* frames given to slide i of the returned timeline
FramesOf(i) == timings.slides[i].endFrame - timings.slides[i].startFrame

RECURSIVE SumFramesTo(_)
SumFramesTo(n) == IF n = 0 THEN 0 ELSE SumFramesTo(n - 1) + FramesOf(n)

\* C1: the timeline tiles [0, totalFrames): one entry per scene, the first starts
\* at 0, every entry ends where the next starts, the last ends at totalFrames,
\* and totalFrames is the sum of the entries' frame counts.
C1_TimelineTiles ==
    calc_pc = "done" =>
        LET s == timings.slides
            n == Len(s)
        IN  /\ n = Len(audio_results)
            /\ (n > 0 => s[1].startFrame = 0)
            /\ \A i \in 1..(n - 1) : s[i].endFrame = s[i + 1].startFrame
            /\ (n > 0 => s[n].endFrame = timings.totalFrames)
            /\ timings.totalFrames = SumFramesTo(n)

\* C1 witness: three scenes of different lengths have been laid out
C1_Witness ==
    /\ calc_pc = "done"
    /\ Len(timings.slides) = 3
    /\ FramesOf(1) # FramesOf(2)
    /\ FramesOf(2) # FramesOf(3)
    /\ timings.totalFrames > 0

C8_LastSubtitleEndsAtSceneEnd ==
    calc_pc = "done" =>
        \A i \in 1..Len(timings.slides) :
            LET subs == timings.slides[i].subtitles
            IN  subs # <<>> => subs[Len(subs)].endFrame = timings.slides[i].endFrame

\* C8 witness: a scene of 106 frames split into three sentences, which do not
\* divide it evenly, after an earlier scene
C8_Witness ==
    /\ calc_pc = "done"
    /\ \E i \in 2..Len(timings.slides) :
          /\ Len(timings.slides[i].subtitles) = 3
          /\ FramesOf(i) % 3 # 0

\* C9 as stated: a scene whose audio duration is 0 gets round(min_scene_seconds * fps)
\* frames.
C9_SilentSceneGetsMinFrames ==
    calc_pc = "done" =>
        \A i \in 1..Len(audio_results) :
            audio_results[i].duration = 0 => FramesOf(i) = PyRound(3000 * 30, 1000)

\* C10 as stated: audio durations [0.0, 4.5, 40.0] give clamped durations
\* [3.0, 5.0, 30.0], frames [90, 150, 900], entries (0,90), (90,240), (240,1140)
\* and totalFrames 1140.
C10_Scenario ==
    ( /\ calc_pc = "done"
      /\ Len(audio_results) = 3
      /\ audio_results[1].duration = 0
      /\ audio_results[2].duration = 4500
      /\ audio_results[3].duration = 40000 )
    => /\ timings.slides[1].duration = 3000
       /\ timings.slides[2].duration = 5000
       /\ timings.slides[3].duration = 30000
       /\ FramesOf(1) = 90 /\ FramesOf(2) = 150 /\ FramesOf(3) = 900
       /\ timings.slides[1].startFrame = 0 /\ timings.slides[1].endFrame = 90
       /\ timings.slides[2].startFrame = 90 /\ timings.slides[2].endFrame = 240
       /\ timings.slides[3].startFrame = 240 /\ timings.slides[3].endFrame = 1140
       /\ timings.totalFrames = 1140

-----------------------------------------------------------------------------
(* Properties of the image batch, checked under SpecImages *)

\* C3: whatever the external image calls do, image collection yields one asset
\* per scene, in scene order, the i-th asset carrying the i-th scene's id; the
\* batch neither raises nor trips its own count assertion.
C3_OneImagePerScene ==
    /\ img_pc \in {"loop", "returned"}
    /\ Len(result_slides) = img_i
    /\ \A i \in 1..Len(result_slides) :
          /\ i <= Len(img_slides)
          /\ result_slides[i].slide_id = img_slides[i].slide_id
          /\ result_slides[i].image_path \in img_files
    /\ (img_pc = "returned" => Len(result_slides) = Len(img_slides))

\* C3 witness: a batch of three scenes has returned with both generated and
\* fallback images in it
C3_Witness ==
    /\ img_pc = "returned"
    /\ Len(img_slides) = 3
    /\ \E i, j \in 1..3 :
          /\ result_slides[i].generation_method = "gemini"
          /\ result_slides[j].generation_method = "fallback"

-----------------------------------------------------------------------------
(* Properties of per-scene image acquisition in video_generator, checked under *)
(* SpecSceneImages                                                             *)

\* C7 as stated: acquiring a scene's image never fails: whatever the external call
\* did, every scene handled has an image asset on disk and no error reaches the
\* caller.
C7_AcquireNeverFails ==
    /\ img_pc # "raised"
    /\ \A i \in 1..Len(result_slides) : result_slides[i].image_path \in img_files

-----------------------------------------------------------------------------
(* Properties of batch speech synthesis, checked under SpecAudio *)

\* C6 as stated: a failed synthesis gives the scene the default-duration silent
\* placeholder, the batch goes on to the remaining scenes, and an audio failure
\* never aborts the pipeline.
C6_AudioFailureIsAbsorbed ==
    /\ aud_pc # "raised"
    /\ \A i \in 1..Len(aud_results) :
          aud_results[i].synth = "failed" =>
              /\ aud_results[i].duration = default_slide_duration
              /\ ~aud_results[i].has_audio
    /\ (aud_pc = "returned" => Len(aud_results) = Len(aud_slides))

-----------------------------------------------------------------------------
(* Properties of a pipeline run, checked under SpecRun *)

\* C4 as stated: a run makes at most max_attempts quality evaluations, and it ends
\* either with a final artifact after an attempt passed, or with an error when the
\* attempts are exhausted without a pass.
C4_RunEndsPassedOrError ==
    /\ review_attempts <= MAX_REVIEW_ATTEMPTS
    /\ (run_pc = "returned" => run_status = "completed" /\ ThresholdMet(last_review))
    /\ (run_pc = "raised" => run_status = "error")
    /\ (run_saved => ThresholdMet(last_review))

-----------------------------------------------------------------------------
(* Properties of the quality evaluator, checked under SpecEval *)

\* C5: whenever the article's length is below the hard floor of 15,000 characters,
\* the report's overall passed flag is false (and so is the article's own).
C5_BelowFloorNeverPasses ==
    (eval_pc = "done" /\ eval_article.word_count < 15000) =>
        /\ ~eval_report[1].overall.passed
        /\ ~eval_report[1].categories[1].passed

\* an article just below the floor and otherwise flawless, evaluated together with
\* flawless slides and a flawless video
C5_Witness ==
    /\ eval_pc = "done"
    /\ eval_article.word_count = 14999
    /\ eval_report[1].categories[1].score = 440000
    /\ Len(eval_report[1].categories) = 3
    /\ eval_report[1].categories[2].score = 300000
    /\ eval_report[1].categories[3].score = 300000
    /\ eval_report[1].overall.percentage = 945

\* C11 as stated: the report's overall percentage is total_score / total_max_score
\* * 100 over the evaluated categories, and the report passes exactly when that
\* percentage is at least the pass threshold of 97%.
C11_PercentageIsExactRatio ==
    eval_pc = "done" =>
        LET overall == eval_report[1].overall
        IN  /\ overall.percentage * overall.max_score * 10 = overall.score
            /\ overall.passed <=> (overall.score >= PASS_THRESHOLD * overall.max_score * 10)

\* C12 as stated: evaluating the same article, slide data and video data twice
\* yields identical reports. Checked under SpecEvalTwice.
C12_SameDataSameReport ==
    eval_pc = "again" => eval_report2 = eval_report

\* C13 as stated: a run that has used up its attempts without meeting the quality
\* threshold returns a failure, not a completed result, and yields no artifact:
\* nothing is saved and nothing is published. Checked under SpecRun.
C13_ExhaustedRunReturnsFailure ==
    LET exhausted == /\ run_pc \in {"save", "publish", "returned"}
                     /\ review_attempts = MAX_REVIEW_ATTEMPTS
                     /\ ~ThresholdMet(last_review)
    IN  exhausted =>
            /\ run_status # "completed"
            /\ ~run_saved
            /\ \A i \in 1..Len(run_steps) :
                  run_steps[i][1] = "publish" => run_steps[i][2] = "skipped"

-----------------------------------------------------------------------------
(* Properties of the video generators' render step, checked under SpecRender *)

\* C14: a run reports success only if no renderer invocation exited with a
\* non-zero code and the declared output file exists and is not empty
C14_SuccessNeedsCleanExitAndOutput ==
    ren_status = "success" =>
        /\ \A i \in 1..Len(ren_runs) : ren_runs[i].exit = "zero"
        /\ ren_output = "nonempty"

\* C15: no renderer invocation outlives the hard timeout, and an invocation that
\* was stopped by it is the last one of the run, which does not succeed
C15_TimeoutIsHardAndFatal ==
    \A i \in 1..Len(ren_runs) :
        /\ ren_runs[i].seconds <= render_timeout
        /\ ren_runs[i].exit = "killed" =>
              /\ i = Len(ren_runs)
              /\ ren_pc \in {"returned", "raised"}
              /\ ren_status # "success"

C17_StagedFilesRemoved ==
    ren_pc \in {"returned", "raised"} => ren_staged = {}

-----------------------------------------------------------------------------
(* Further properties of batch speech synthesis, checked under SpecAudio *)

\* C18: when a batch has returned, every scene whose synthesis ended in the
\* placeholder was tried three times, so the external service was called at least
\* once per synthesized scene and three times per failed one
C18_FailedSynthesisTriedThreeTimes ==
    aud_pc = "returned" =>
        LET calls == Cardinality({k \in 1..Len(aud_log) : aud_log[k] = "call"})
            ok == Cardinality({i \in 1..Len(aud_results) : aud_results[i].synth = "ok"})
            failed == Cardinality({i \in 1..Len(aud_results) :
                                      aud_results[i].synth = "failed"})
        IN  calls >= ok + 3 * failed

\* C19: a scene whose narration is empty gets, without any error and without a
\* call to the service, a silent result whose duration is the minimum scene
\* duration
C19_EmptyNarrationGetsMinDuration ==
    aud_impl \in {"v3", "v2"} =>
        \A i \in 1..Len(aud_results) :
            aud_slides[i] = "empty" =>
                /\ aud_results[i].synth = "skipped"
                /\ ~aud_results[i].has_audio
                /\ aud_results[i].duration = min_slide_duration

-----------------------------------------------------------------------------
(* Properties of both batches, checked under SpecBatches *)

\* C20: a batch that has returned holds exactly one output per input scene, and
\* the i-th output belongs to the i-th input: it carries its id, and it is a
\* skipped-narration result only if the i-th narration has no text
C20_OneOutputPerSceneInOrder ==
    /\ aud_pc = "returned" =>
          /\ Len(aud_results) = Len(aud_slides)
          /\ \A i \in 1..Len(aud_results) :
                /\ aud_results[i].slide_id = i
                /\ aud_results[i].synth = "skipped" => aud_slides[i] # "text"
                /\ aud_slides[i] = "text" => aud_results[i].synth \in {"ok", "failed"}
    /\ img_pc = "returned" =>
          /\ Len(result_slides) = Len(img_slides)
          /\ \A i \in 1..Len(result_slides) :
                result_slides[i].slide_id = img_slides[i].slide_id

\* a v3 audio batch of three scenes has returned: the first narration was
\* synthesized, the second has no text, the synthesis of the third failed
C20_Witness ==
    /\ aud_impl = "v3"
    /\ aud_pc = "returned"
    /\ Len(aud_slides) = 3
    /\ aud_results[1].synth = "ok"
    /\ aud_results[2].synth = "skipped"
    /\ aud_results[3].synth = "failed"

\* C21: in the record of a batch, two calls to the synthesis service are never
\* adjacent: a sleep lies between them
C21_SleepBetweenCalls ==
    \A k \in 1..(Len(aud_log) - 1) :
        ~(aud_log[k] = "call" /\ aud_log[k + 1] = "call")

-----------------------------------------------------------------------------
(* Further properties of a generator's run, checked under SpecRender *)

\* C22: the stages a generator has entered follow the order scripting, audio
\* synthesis, timing, image acquisition, rendering: no stage is entered after
\* one that comes later in that order
C22_StagesInPipelineOrder ==
    LET rank(stage) ==
            CASE stage \in {"slides", "script"} -> 1
              [] stage \in {"narration", "tts", "audio"} -> 2
              [] stage = "timing" -> 3
              [] stage \in {"images", "files"} -> 4
              [] stage = "render" -> 5
    IN  ren_impl \in {"v3", "v2"} =>
            \A i, j \in 1..Len(ren_trace) :
                i < j => rank(ren_trace[i]) <= rank(ren_trace[j])

-----------------------------------------------------------------------------
(* Further properties of the timing calculation, checked under SpecTiming *)

\* C24: in a scene of F frames with k subtitle segments, the first segment
\* starts at the scene's startFrame, each segment starts where the previous one
\* ended, each of the first k-1 segments spans F div k frames, and the last one
\* spans what is left, F - (k-1) * (F div k)
C24_SegmentsSplitFramesEvenly ==
    calc_pc = "done" =>
        \A i \in 1..Len(timings.slides) :
            LET slide == timings.slides[i]
                subs == slide.subtitles
                k == Len(subs)
                F == slide.endFrame - slide.startFrame
            IN  k >= 1 =>
                    /\ subs[1].startFrame = slide.startFrame
                    /\ \A j \in 1..(k - 1) :
                          /\ subs[j].endFrame - subs[j].startFrame = F \div k
                          /\ subs[j + 1].startFrame = subs[j].endFrame
                    /\ subs[k].endFrame - subs[k].startFrame = F - (k - 1) * (F \div k)

\* a scene that does not start at frame 0 has three segments, and its last
\* segment is one frame longer than its first
C24_Witness ==
    /\ calc_pc = "done"
    /\ \E i \in 2..Len(timings.slides) :
          LET subs == timings.slides[i].subtitles
          IN  /\ Len(subs) = 3
              /\ subs[3].endFrame - subs[3].startFrame
                    = subs[1].endFrame - subs[1].startFrame + 1

-----------------------------------------------------------------------------
(* Properties of video script generation, checked under SpecScript *)

\* C25: the script that goes on to the later stages has the ids 1..n in order,
\* starts with a title slide and ends with an ending slide; any other script
\* was rejected
C25_ScriptValidatedOrRejected ==
    scr_pc = "returned" =>
        /\ \A i \in 1..Len(scr_script) : scr_script[i].slide_id = i
        /\ scr_script # <<>> => /\ scr_script[1].type = "title"
                                /\ scr_script[Len(scr_script)].type = "ending"

-----------------------------------------------------------------------------
(* Further properties of the image batch, checked under SpecImages *)

\* C26: drawing a fallback image calls no service: the only external calls of a
\* batch are the image requests themselves, one per slide that has a prompt, and
\* every slide that fell back has its image on disk whatever the service did
C26_FallbackIsLocal ==
    LET calls == Cardinality({k \in 1..Len(img_log) : img_log[k] = "call"})
        draws == Cardinality({k \in 1..Len(img_log) : img_log[k] = "draw"})
        prompted == Cardinality({i \in 1..img_i : img_slides[i].has_prompt})
        fallbacks == {i \in 1..Len(result_slides) :
                         result_slides[i].generation_method = "fallback"}
    IN  /\ calls = prompted
        /\ draws = Cardinality(fallbacks)
        /\ \A i \in fallbacks : result_slides[i].image_path \in img_files

\* the service answered no request of a batch of three slides, the first of
\* which has no prompt: three fallback images were drawn around two calls
C26_Witness ==
    /\ img_pc = "returned"
    /\ Len(result_slides) = 3
    /\ \A i \in 1..3 : result_slides[i].generation_method = "fallback"
    /\ img_log = <<"draw", "call", "draw", "call", "draw">>

-----------------------------------------------------------------------------
(* Cancellation of a generator's run, checked under SpecRender *)

\* C27: after a run was cancelled, no file staged for the render is left on disk
C27_CancelledRunLeavesNoStagedFiles ==
    ren_pc = "cancelled" => ren_staged = {}

-----------------------------------------------------------------------------
(* Properties of slide video generation, checked under SpecSlideVideo *)

C30_RenderedWithinThirtySeconds ==
    sv_pc = "rendered" => Len(sv_rendered) * sv_slide_duration <= MAX_VIDEO_DURATION

\* three slides were generated for 15 seconds each and two of them were rendered
C30_Witness ==
    /\ sv_pc = "rendered"
    /\ sv_slide_duration = 15
    /\ Len(sv_slides) = 3
    /\ Len(sv_rendered) = 2

-----------------------------------------------------------------------------
(* The review loop of a pipeline run, checked under SpecRun *)

====
